---- MODULE Spec2Model ----
(***************************************************************************)
(* Model of src/app.py: the two request handlers process_pdf and           *)
(* process_multiple_pdfs, the filesystem they share (olmocr_workspace and  *)
(* dolma_previews) and the two external tools they run.                    *)
(*                                                                         *)
(* Text is a sequence of chunks: "" is <<>>, an f-string is the            *)
(* concatenation of its literal parts and its interpolated values.  The    *)
(* Chinese literals of the source are written as ASCII names here; the     *)
(* comment next to each gives the literal.                                 *)
(***************************************************************************)
EXTENDS Naturals, Sequences, FiniteSets, TLC

(* ---------------------------------------------------------------- bounds *)
\* number of process_pdf invocations in one behaviour
MaxJobs == 2
\* the clock int(time.time()) takes the values 0..MaxTime
MaxTime == 1

Jobs == 1..MaxJobs
Times == 0..MaxTime

(* ------------------------------------------------------- Python values *)
None == [t |-> "None"]
Str(s) == [t |-> "str", v |-> s]
Num(n) == [t |-> "num", v |-> n]
Obj(pairs) == [t |-> "obj", v |-> pairs]
DataFrame(rows) == [t |-> "DataFrame", v |-> rows]

Range(s) == {s[i] : i \in 1..Len(s)}

\* sub in text, for texts that are sequences of chunks
Contains(text, sub) ==
    \E i \in 1..Len(text) : i + Len(sub) - 1 <= Len(text)
                            /\ SubSeq(text, i, i + Len(sub) - 1) = sub

(* ------------------------------------------------------ message literals *)
\* "请上传PDF文件"
MSG_UPLOAD == "msg:please-upload-pdf"
\* "处理完成，但未生成结果目录\n\n日志输出:\n"
MSG_NO_RESULTS_DIR == "msg:done-but-no-results-dir;log:"
\* "处理完成，但未找到输出文件\n\n日志输出:\n"
MSG_NO_OUTPUT_FILE == "msg:done-but-no-output-file;log:"
\* "输出文件为空\n\n日志输出:\n"
MSG_EMPTY_OUTPUT == "msg:output-file-empty;log:"
\* "未找到文本内容"
MSG_NO_TEXT == "msg:text-not-found"
\* "\n生成HTML预览失败: "
MSG_PREVIEW_FAILED == "msg:html-preview-generation-failed:"
\* "\n读取HTML预览失败: "
MSG_PREVIEW_READ_FAILED == "msg:html-preview-read-failed:"
\* "命令执行失败: "
MSG_COMMAND_FAILED == "msg:command-failed:"
\* "处理过程中发生错误: "
MSG_ERROR == "msg:error-during-processing:"
\* "所有文件处理完成！"
MSG_ALL_DONE == "msg:all-files-processed"

(* ------------------------------------------------------------ file names *)
WORKSPACE_DIR == "olmocr_workspace"

\* the uploaded files a request can name: a path is directory, stem, extension
PdfFiles == { [t |-> "path", dir |-> "/tmp/g1", stem |-> "a", ext |-> ".pdf"],
              [t |-> "path", dir |-> "/tmp/g2", stem |-> "b", ext |-> ".pdf"] }

basename(path) == [stem |-> path.stem, ext |-> path.ext]
splitext(name) == <<name.stem, name.ext>>

\* a work_dir that does not depend on the timestamp
JobDirFixed(timestamp) == [root |-> WORKSPACE_DIR, kind |-> "job_", ts |-> 0]
\* os.path.join(WORKSPACE_DIR, f"job_{timestamp}")
JobDir(timestamp) == [root |-> WORKSPACE_DIR, kind |-> "job_", ts |-> timestamp]
\* os.path.join(WORKSPACE_DIR, f"batch_{timestamp}")
BatchDir(timestamp) == [root |-> WORKSPACE_DIR, kind |-> "batch_", ts |-> timestamp]
JobDirs == {JobDir(ts) : ts \in Times}
BatchDirs == {BatchDir(ts) : ts \in Times}

\* f"{original_filename}_extracted_text.txt"
TextFileName(original_filename) == [stem |-> original_filename, suffix |-> "_extracted_text.txt"]
\* os.path.join(work_dir, f"{original_filename}_extracted_text.txt")
DownloadPath(work_dir, original_filename) ==
    [t |-> "path", dir |-> work_dir, name |-> TextFileName(original_filename)]

(* ------------------------------------------ what the extraction tool emits *)
\* a string that open(..., "w", encoding="utf-8") cannot encode
LoneSurrogate == "\\ud83d"
Encodable(s) == LoneSurrogate \notin Range(s)

Pair(k, val) == [k |-> k, val |-> val]
Meta == Obj(<< Pair("pages", Num(1)), Pair("lang", Str(<<"en">>)) >>)

\* the JSON values an output_*.jsonl file can hold
JsonDocs == { Obj(<< Pair("text", Str(<<"hello">>)), Pair("metadata", Meta) >>),
              Obj(<< >>),
              Obj(<< Pair("text", Num(5)), Pair("metadata", Meta) >>),
              Obj(<< Pair("text", Str(<<LoneSurrogate>>)) >>),
              Num(3) }

\* the content of an output_*.jsonl file: blank, not JSON, or one JSON value
Contents == { [kind |-> "blank"], [kind |-> "garbage"] }
            \cup { [kind |-> "json", val |-> d] : d \in JsonDocs }

\* captured stderr and stdout of the extraction tool
StdErrs == { <<"stderr:traceback">> }
StdOuts == { <<"stdout:pipeline-log">> }

\* str(e) of the exceptions the handler formats
Exc(name) == <<name>>

(* ------------------------------------------------------- dict operations *)
HasKey(obj, key) == \E i \in 1..Len(obj.v) : obj.v[i].k = key
\* dict.get(key, default); the caller has checked obj.t = "obj"
Get(obj, key, default) ==
    IF HasKey(obj, key)
    THEN obj.v[CHOOSE i \in 1..Len(obj.v) : obj.v[i].k = key].val
    ELSE default
\* the rows in reverse key order
MetaRowsReversed(metadata) ==
    [i \in 1..Len(metadata.v) |->
        <<metadata.v[Len(metadata.v) + 1 - i].k, metadata.v[Len(metadata.v) + 1 - i].val>>]
\* [[key, value] for key, value in metadata.items()]
MetaRows(metadata) == [i \in 1..Len(metadata.v) |-> <<metadata.v[i].k, metadata.v[i].val>>]

(* --------------------------------------------- modify_html_for_better_display *)
\* the HTML that olmocr.viewer.dolmaviewer writes for invocation j's output file
DocTag(j) == <<"doc:job1", "doc:job2", "doc:job3", "doc:job4">>[j]
ViewerHtml(j) ==
    << "<style>", "<div class=\"container\">", "<div class=\"page\">", "<div class=\"row\">",
       "<div class=\"col-md-6\">", "<img src=\"page.png\" style=\"width: 50%\"", DocTag(j), "</body>" >>

\* the str.replace calls, one chunk at a time
ReplaceChunk(c) ==
    CASE c = "<div class=\"container\">" ->
             << "<div class=\"container\" style=\"max-width: 100%; width: 100%;\">" >>
      [] c = "<style>" -> << "<style>", "body {font-size: 16px;}" >>
      [] c = "<div class=\"row\">" -> << "<div class=\"row\" style=\"display: flex; flex-wrap: wrap;\">" >>
      [] c = "<div class=\"col-md-6\">" ->
             << "<div class=\"col-md-6\" style=\"flex: 0 0 50%; max-width: 50%; padding: 15px;\">" >>
      [] c = "<div class=\"page\">" ->
             << "<div class=\"page\" style=\"margin-bottom: 30px; border-bottom: 1px solid #ccc; padding-bottom: 20px;\">" >>
      [] c = "<img src=\"page.png\" style=\"width: 50%\"" ->
             << "<img src=\"page.png\" style=\"max-width: 100%; height: auto; width: 50%\"" >>
      [] c = "</body>" -> << "zoom_controls", "</body>" >>
      [] OTHER -> << c >>

RECURSIVE ReplaceAll(_)
ReplaceAll(html) ==
    IF html = <<>> THEN <<>> ELSE ReplaceChunk(Head(html)) \o ReplaceAll(Tail(html))

modify_html_for_better_display(html_content) ==
    IF html_content = <<>> THEN html_content ELSE ReplaceAll(html_content)

(* ------------------------------------------------------------------ state *)
VARIABLES
    now,        \* int(time.time())
    ninv,       \* number of process_pdf invocations started or reserved
    jobs,       \* the process_pdf invocations: position and local variables
    dirs,       \* olmocr_workspace/job_<ts>: existence and contents
    previews,   \* dolma_previews: the invocations whose viewer run left an .html file
    batch,      \* the process_multiple_pdfs invocation: position and local variables
    zips        \* olmocr_workspace/batch_<ts>: existence and extracted_texts.zip

vars == <<now, ninv, jobs, dirs, previews, batch, zips>>

NoFile == [by |-> 0, content |-> [kind |-> "blank"]]

\* return msg, "", None, None, None
FailTuple(msg) ==
    [log_text |-> msg, extracted_text |-> Str(<<>>), html |-> None, df |-> None, file |-> None]

IdleJob ==
    [ pc |-> "idle", caller |-> "none", pdf_file |-> None, timestamp |-> 0,
      log_text |-> <<>>, exit |-> "none", stderr |-> <<>>, output_file |-> NoFile,
      result |-> None, extracted_text |-> None, viewer |-> "none",
      html_file |-> 0, html_read |-> "none", html_content |-> <<>>, did |-> {}, exc |-> <<>>,
      ret |-> FailTuple(<<>>) ]

EmptyDir == [exists |-> FALSE, input |-> 0, results |-> FALSE, outputs |-> {}, downloads |-> {}]

work_dir(j) == JobDir(jobs[j].timestamp)
original_filename(j) == splitext(basename(jobs[j].pdf_file))[1]

Active(j) == jobs[j].pc \notin {"idle", "done", "raised"}

\* the handler returns r / lets exception e propagate
Return(job, r) == [job EXCEPT !.pc = "done", !.ret = r]
Raise(job, e) == [job EXCEPT !.pc = "raised", !.exc = e]

(* ------------------------------------------------------------ return sites *)
\* line 60
ReturnNoInput == FailTuple(<<MSG_UPLOAD>>)
\* line 95
ReturnNoResultsDir(log_text) == FailTuple(<<MSG_NO_RESULTS_DIR>> \o log_text)
\* line 100
ReturnNoOutputFile(log_text) == FailTuple(<<MSG_NO_OUTPUT_FILE>> \o log_text)
\* line 108 with "" in place of the first None
ReturnEmptyOutputNoNone(log_text) ==
    [FailTuple(<<MSG_EMPTY_OUTPUT>> \o log_text) EXCEPT !.html = Str(<<>>)]
\* line 108
ReturnEmptyOutput(log_text) == FailTuple(<<MSG_EMPTY_OUTPUT>> \o log_text)
\* line 150 with e.stdout in place of e.stderr
ReturnCommandFailedStdout(stderr, stdout) == FailTuple(<<MSG_COMMAND_FAILED>> \o stdout)
\* line 150: except subprocess.CalledProcessError as e
ReturnCommandFailed(stderr, stdout) == FailTuple(<<MSG_COMMAND_FAILED>> \o stderr)
\* line 152: except Exception as e
ReturnError(e) == FailTuple(<<MSG_ERROR>> \o e)
\* line 147
ReturnSuccess(log_text, extracted_text, html_content, meta_rows, download_file) ==
    [ log_text |-> log_text, extracted_text |-> extracted_text,
      html |-> Str(html_content), df |-> DataFrame(meta_rows), file |-> download_file ]

(* ------------------------------------------------------------ process_pdf *)
\* lines 57-60: the call and the test of pdf_file
Enter(j, pdf_file, caller) ==
    LET job == [IdleJob EXCEPT !.pdf_file = pdf_file, !.caller = caller]
    IN  IF pdf_file = None THEN Return(job, ReturnNoInput)
                           ELSE [job EXCEPT !.pc = "stage"]

\* a single-file request ("process") arrives
process_pdf(pdf_file) ==
    /\ ninv < MaxJobs
    /\ ninv' = ninv + 1
    /\ jobs' = [jobs EXCEPT ![ninv + 1] = Enter(ninv + 1, pdf_file, "single")]
    /\ UNCHANGED <<now, dirs, previews, batch, zips>>

\* int(time.time()): the clock is read; tick says whether a second boundary has
\* passed since the last reading.  The clock stops at MaxTime.
time(tick) == IF tick /\ now < MaxTime THEN now + 1 ELSE now

\* lines 63-72: timestamp, work_dir, os.makedirs(work_dir, exist_ok=True),
\* shutil.copy(pdf_file, work_dir/input.pdf); none of it is in the try.
\* fault: the call that raises OSError, if any.
StagePdf(j, tick, fault) ==
    /\ jobs[j].pc = "stage"
    /\ tick => now < MaxTime
    /\ now' = time(tick)
    /\ LET timestamp == time(tick)
       IN  CASE fault = "makedirs" ->
                  /\ jobs' = [jobs EXCEPT ![j] = Raise([@ EXCEPT !.timestamp = timestamp],
                                                      Exc("OSError:makedirs"))]
                  /\ UNCHANGED dirs
             [] fault = "copy" ->
                  /\ jobs' = [jobs EXCEPT ![j] = Raise([@ EXCEPT !.timestamp = timestamp],
                                                      Exc("OSError:copy"))]
                  /\ dirs' = [dirs EXCEPT ![JobDir(timestamp)].exists = TRUE]
             [] OTHER ->
                  /\ jobs' = [jobs EXCEPT ![j] = [@ EXCEPT !.pc = "run", !.timestamp = timestamp]]
                  /\ dirs' = [dirs EXCEPT ![JobDir(timestamp)] = [@ EXCEPT !.exists = TRUE, !.input = j]]
    /\ UNCHANGED <<ninv, previews, batch, zips>>

\* what one run of olmocr.pipeline can do: it cannot be started, or it exits
\* non-zero with a stderr, or it exits 0 having written nothing, an empty
\* results directory, or results/output_<j>.jsonl.  The tool writes only below
\* the workspace directory it is given (work_dir).
ToolOutcomes ==
    { [exit |-> "oserror", stderr |-> <<>>, stdout |-> <<>>, wrote |-> "nothing", content |-> [kind |-> "blank"]] }
    \cup { [exit |-> "nonzero", stderr |-> e, stdout |-> o, wrote |-> "nothing", content |-> [kind |-> "blank"]]
           : e \in StdErrs, o \in StdOuts }
    \cup { [exit |-> "zero", stderr |-> <<>>, stdout |-> o, wrote |-> w, content |-> [kind |-> "blank"]]
           : o \in StdOuts, w \in {"nothing", "dir"} }
    \cup { [exit |-> "zero", stderr |-> <<>>, stdout |-> o, wrote |-> "file", content |-> c]
           : o \in StdOuts, c \in Contents }

\* lines 75-90 and the handlers of lines 149-152: subprocess.run(cmd, check=True)
RunPipeline(j, out) ==
    /\ jobs[j].pc = "run"
    /\ jobs' = [jobs EXCEPT ![j] =
         CASE out.exit = "oserror" ->
                Return([@ EXCEPT !.exit = out.exit, !.did = @ \cup {"run"}],
                       ReturnError(Exc("OSError:subprocess")))
           [] out.exit = "nonzero" ->
                Return([@ EXCEPT !.exit = out.exit, !.stderr = out.stderr, !.did = @ \cup {"run"}],
                       ReturnCommandFailed(out.stderr, out.stdout))
           [] OTHER ->
                [@ EXCEPT !.pc = "scan", !.exit = out.exit, !.log_text = out.stdout,
                          !.did = @ \cup {"run"}] ]
    /\ dirs' = [dirs EXCEPT ![work_dir(j)] =
         CASE out.wrote = "dir"  -> [@ EXCEPT !.results = TRUE]
           [] out.wrote = "file" -> [@ EXCEPT !.results = TRUE,
                                              !.outputs = @ \cup {[by |-> j, content |-> out.content]}]
           [] OTHER -> @ ]
    /\ UNCHANGED <<now, ninv, previews, batch, zips>>

\* lines 93-112: os.path.exists(results_dir); output_files = list(glob("output_*.jsonl"));
\* output_file = output_files[0]; content = f.read().strip(); result = json.loads(content);
\* extracted_text = result.get("text", ...); the handler of line 152.
\* The listing order is the directory's: any of its files can be first.
ScanResults(j, first) ==
    /\ jobs[j].pc = "scan"
    /\ LET results == dirs[work_dir(j)]
           output_files == results.outputs
           content == first.content
           job == [jobs[j] EXCEPT !.did = @ \cup {"scan"}, !.output_file = first]
       IN  /\ IF results.results /\ output_files # {} THEN first \in output_files ELSE first = NoFile
           /\ jobs' = [jobs EXCEPT ![j] =
                CASE ~ results.results -> Return(job, ReturnNoResultsDir(job.log_text))
                  [] output_files = {} -> Return(job, ReturnNoOutputFile(job.log_text))
                  [] content.kind = "blank" -> Return(job, ReturnEmptyOutput(job.log_text))
                  [] content.kind = "garbage" -> Return(job, ReturnError(Exc("JSONDecodeError")))
                  [] content.val.t # "obj" ->
                       Return([job EXCEPT !.result = content.val],
                              ReturnError(Exc("AttributeError:get")))
                  [] OTHER ->
                       [job EXCEPT !.pc = "viewer", !.result = content.val,
                                   !.extracted_text = Get(content.val, "text", Str(<<MSG_NO_TEXT>>))] ]
    /\ UNCHANGED <<now, ninv, dirs, previews, batch, zips>>

\* lines 115-119: subprocess.run(preview_cmd, check=True) in its own try
RunViewer(j, ok) ==
    /\ jobs[j].pc = "viewer"
    /\ IF ok
       THEN /\ previews' = previews \cup {j}
            /\ jobs' = [jobs EXCEPT ![j] =
                 [@ EXCEPT !.pc = "htmlscan", !.viewer = "ok", !.did = @ \cup {"viewer"}]]
       ELSE /\ UNCHANGED previews
            /\ jobs' = [jobs EXCEPT ![j] =
                 [@ EXCEPT !.pc = "htmlscan", !.viewer = "failed", !.did = @ \cup {"viewer"},
                           !.log_text = @ \o <<MSG_PREVIEW_FAILED, "CalledProcessError">>]]
    /\ UNCHANGED <<now, ninv, dirs, batch, zips>>

\* a listing restricted to the file of invocation j
glob_html_scoped(j) == previews \cap {j}
\* line 122: list(Path("dolma_previews").glob("*.html")), whoever calls
glob_html(j) == previews

\* lines 122-131: html_files = list(Path("dolma_previews").glob("*.html")); html_content = "";
\* html_files[0] is read and adapted in its own try.  Any file of the directory can be
\* html_files[0]; 0 stands for an empty listing.  fault: the read raises.
ScanPreviews(j, first, fault) ==
    /\ jobs[j].pc = "htmlscan"
    /\ LET html_files == glob_html(j)
       IN  /\ IF html_files = {} THEN first = 0 /\ ~ fault ELSE first \in html_files
           /\ jobs' = [jobs EXCEPT ![j] =
                CASE html_files = {} -> [@ EXCEPT !.pc = "write", !.html_file = 0]
                  [] html_files # {} /\ fault ->
                       [@ EXCEPT !.pc = "write", !.html_file = first, !.html_read = "failed",
                                 !.log_text = @ \o <<MSG_PREVIEW_READ_FAILED, "OSError">>]
                  [] OTHER ->
                       [@ EXCEPT !.pc = "write", !.html_file = first, !.html_read = "ok",
                                 !.html_content = modify_html_for_better_display(ViewerHtml(first))] ]
    /\ UNCHANGED <<now, ninv, dirs, previews, batch, zips>>

\* open(path, "w") creates or truncates the file; f.write(text) fills it
WriteFile(downloads, name, text, j) ==
    {f \in downloads : f.name # name} \cup {[name |-> name, text |-> text, by |-> j]}

\* lines 134-147: metadata table, download file, return; the handler of line 152.
\* fault: open(download_file, "w") raises OSError.
WriteDownload(j, fault) ==
    /\ jobs[j].pc = "write"
    /\ LET job == jobs[j]
           metadata == Get(job.result, "metadata", Obj(<<>>))
           name == TextFileName(original_filename(j))
           download_file == DownloadPath(work_dir(j), original_filename(j))
           wrote == [job EXCEPT !.did = @ \cup {"write"}]
       IN  CASE metadata.t # "obj" ->
                  /\ jobs' = [jobs EXCEPT ![j] = Return(job, ReturnError(Exc("AttributeError:items")))]
                  /\ UNCHANGED dirs
             [] metadata.t = "obj" /\ fault ->
                  /\ jobs' = [jobs EXCEPT ![j] = Return(job, ReturnError(Exc("OSError:open")))]
                  /\ UNCHANGED dirs
             [] metadata.t = "obj" /\ ~ fault /\ job.extracted_text.t # "str" ->
                  /\ jobs' = [jobs EXCEPT ![j] = Return(wrote, ReturnError(Exc("TypeError:write")))]
                  /\ dirs' = [dirs EXCEPT ![work_dir(j)].downloads = WriteFile(@, name, <<>>, j)]
             [] metadata.t = "obj" /\ ~ fault /\ job.extracted_text.t = "str"
                  /\ ~ Encodable(job.extracted_text.v) ->
                  /\ jobs' = [jobs EXCEPT ![j] = Return(wrote, ReturnError(Exc("UnicodeEncodeError")))]
                  /\ dirs' = [dirs EXCEPT ![work_dir(j)].downloads = WriteFile(@, name, <<>>, j)]
             [] OTHER ->
                  /\ jobs' = [jobs EXCEPT ![j] =
                       Return(wrote, ReturnSuccess(job.log_text, job.extracted_text,
                                                   job.html_content, MetaRows(metadata),
                                                   download_file))]
                  /\ dirs' = [dirs EXCEPT ![work_dir(j)].downloads =
                                WriteFile(@, name, job.extracted_text.v, j)]
    /\ UNCHANGED <<now, ninv, previews, batch, zips>>

(* -------------------------------------------------- process_multiple_pdfs *)
List(items) == [t |-> "list", v |-> items]

\* the file collections a batch request can carry, of at most n files
PdfLists(n) == UNION { [1..k -> PdfFiles] : k \in 0..n }

IdleBatch ==
    [ pc |-> "idle", pdf_files |-> None, timestamp |-> 0, i |-> 1, base |-> 0,
      exc |-> <<>>, ret |-> [msg |-> <<>>, zip_path |-> None] ]

EmptyBatchDir == [exists |-> FALSE, zip |-> "absent", entries |-> <<>>]

batch_dir == BatchDir(batch.timestamp)
\* os.path.join(batch_dir, "extracted_texts.zip")
ZipPath(dir) == [t |-> "path", dir |-> dir, name |-> "extracted_texts.zip"]

\* line 156 as "pdf_files is None"
IsNone(pdf_files) == pdf_files = None
\* line 156: not pdf_files
Falsy(pdf_files) == pdf_files = None \/ pdf_files.v = <<>>

\* lines 154-157: the call and the test "if not pdf_files".  The invocations of
\* process_pdf that the loop will make are numbered here.
process_multiple_pdfs(pdf_files) ==
    /\ batch.pc = "idle"
    /\ IF Falsy(pdf_files)
       THEN /\ batch' = [batch EXCEPT !.pc = "done", !.pdf_files = pdf_files,
                                      !.ret = [msg |-> <<MSG_UPLOAD>>, zip_path |-> None]]
            /\ UNCHANGED ninv
       ELSE /\ ninv + Len(pdf_files.v) <= MaxJobs
            /\ batch' = [batch EXCEPT !.pc = "makedirs", !.pdf_files = pdf_files, !.base = ninv]
            /\ ninv' = ninv + Len(pdf_files.v)
    /\ UNCHANGED <<now, jobs, dirs, previews, zips>>

\* lines 160-162: timestamp, batch_dir, os.makedirs(batch_dir, exist_ok=True)
BatchMakeDir(tick, fault) ==
    /\ batch.pc = "makedirs"
    /\ tick => now < MaxTime
    /\ now' = time(tick)
    /\ IF fault
       THEN /\ batch' = [batch EXCEPT !.pc = "raised", !.timestamp = time(tick),
                                      !.exc = Exc("OSError:makedirs(batch_dir)")]
            /\ UNCHANGED zips
       ELSE /\ batch' = [batch EXCEPT !.pc = "zipopen", !.timestamp = time(tick)]
            /\ zips' = [zips EXCEPT ![BatchDir(time(tick))].exists = TRUE]
    /\ UNCHANGED <<ninv, jobs, dirs, previews>>

\* lines 165-167: zipfile.ZipFile(zip_path, 'w', ...) creates or truncates the archive
BatchOpenZip(fault) ==
    /\ batch.pc = "zipopen"
    /\ IF fault
       THEN /\ batch' = [batch EXCEPT !.pc = "raised", !.exc = Exc("OSError:zipfile")]
            /\ UNCHANGED zips
       ELSE /\ batch' = [batch EXCEPT !.pc = "loop", !.i = 1]
            /\ zips' = [zips EXCEPT ![batch_dir] = [@ EXCEPT !.zip = "open", !.entries = <<>>]]
    /\ UNCHANGED <<now, ninv, jobs, dirs, previews>>

\* lines 168-172: the next pdf_file of the list is handed to process_pdf
BatchCallItem ==
    /\ batch.pc = "loop"
    /\ batch.i <= Len(batch.pdf_files.v)
    /\ batch' = [batch EXCEPT !.pc = "call"]
    /\ jobs' = [jobs EXCEPT ![batch.base + batch.i] =
                  Enter(batch.base + batch.i, batch.pdf_files.v[batch.i], "batch")]
    /\ UNCHANGED <<now, ninv, dirs, previews, zips>>

\* zipf.writestr(text_filename, extracted_text)
writestr(entries, text_filename, extracted_text) ==
    Append(entries, [name |-> text_filename, text |-> extracted_text])

\* line 172 unpacked in the wrong order
FirstSlot(r) == Str(r.log_text)
\* line 172: log_text, extracted_text, _, _, _ = process_pdf(pdf_file)
SecondSlot(r) == r.extracted_text

\* lines 172-179: process_pdf has returned; its second slot goes into the archive
BatchWriteEntry ==
    /\ batch.pc = "call"
    /\ jobs[batch.base + batch.i].pc = "done"
    /\ LET pdf_file == batch.pdf_files.v[batch.i]
           extracted_text == SecondSlot(jobs[batch.base + batch.i].ret)
           text_filename == TextFileName(splitext(basename(pdf_file))[1])
       IN  zips' = [zips EXCEPT ![batch_dir].entries = writestr(@, text_filename, extracted_text)]
    /\ batch' = [batch EXCEPT !.pc = "loop", !.i = @ + 1]
    /\ UNCHANGED <<now, ninv, jobs, dirs, previews>>

\* line 172: process_pdf raised; the with statement closes the archive and the
\* exception leaves process_multiple_pdfs
BatchPropagate ==
    /\ batch.pc = "call"
    /\ jobs[batch.base + batch.i].pc = "raised"
    /\ batch' = [batch EXCEPT !.pc = "raised", !.exc = jobs[batch.base + batch.i].exc]
    /\ zips' = [zips EXCEPT ![batch_dir].zip = "closed"]
    /\ UNCHANGED <<now, ninv, jobs, dirs, previews>>

\* lines 166, 181: the loop is over, the archive is closed, the handler returns
BatchReturn ==
    /\ batch.pc = "loop"
    /\ batch.i > Len(batch.pdf_files.v)
    /\ batch' = [batch EXCEPT !.pc = "done",
                              !.ret = [msg |-> <<MSG_ALL_DONE>>, zip_path |-> ZipPath(batch_dir)]]
    /\ zips' = [zips EXCEPT ![batch_dir].zip = "closed"]
    /\ UNCHANGED <<now, ninv, jobs, dirs, previews>>

(* ---------------------------------------------------------- specification *)
Init ==
    /\ now = 0
    /\ ninv = 0
    /\ jobs = [j \in Jobs |-> IdleJob]
    /\ dirs = [d \in JobDirs |-> EmptyDir]
    /\ previews = {}
    /\ batch = IdleBatch
    /\ zips = [d \in BatchDirs |-> EmptyBatchDir]

\* the steps of the running process_pdf invocations
JobStep ==
    \/ \E j \in Jobs, tick \in BOOLEAN, fault \in {"none", "makedirs", "copy"} : StagePdf(j, tick, fault)
    \/ \E j \in Jobs, out \in ToolOutcomes : RunPipeline(j, out)
    \/ \E j \in Jobs : \E first \in dirs[work_dir(j)].outputs \cup {NoFile} : ScanResults(j, first)
    \/ \E j \in Jobs, ok \in BOOLEAN : RunViewer(j, ok)
    \/ \E j \in Jobs, fault \in BOOLEAN : \E first \in previews \cup {0} : ScanPreviews(j, first, fault)
    \/ \E j \in Jobs, fault \in BOOLEAN : WriteDownload(j, fault)

\* the "process" requests
SingleRequest == \E pdf_file \in PdfFiles \cup {None} : process_pdf(pdf_file)

\* the "batch_process" request and its steps
BatchStep ==
    \/ \E pdf_files \in {None} \cup {List(l) : l \in PdfLists(MaxJobs)} : process_multiple_pdfs(pdf_files)
    \/ \E tick, fault \in BOOLEAN : BatchMakeDir(tick, fault)
    \/ \E fault \in BOOLEAN : BatchOpenZip(fault)
    \/ BatchCallItem
    \/ BatchWriteEntry
    \/ BatchPropagate
    \/ BatchReturn

\* single-file requests, served concurrently
NextSingle == SingleRequest \/ JobStep
SpecSingle == Init /\ [][NextSingle]_vars

\* one batch request
NextBatch == BatchStep \/ JobStep
SpecBatch == Init /\ [][NextBatch]_vars

\* both kinds of request at once; the properties below are stated for the
\* two specifications above
Next == SingleRequest \/ BatchStep \/ JobStep
Spec == Init /\ [][Next]_vars

(* ================================================================ claims *)
Done(j) == jobs[j].pc = "done"
Succeeded(j) == Done(j) /\ jobs[j].ret.file # None

\* the shape of: msg, "", None, None, None with a non-empty msg
IsFailure(r) ==
    /\ r.log_text # <<>>
    /\ r.extracted_text = Str(<<>>)
    /\ r.html = None /\ r.df = None /\ r.file = None

\* the output file that invocation j read
Read(j) == jobs[j].output_file.content
ReadObject(j) ==
    /\ "scan" \in jobs[j].did /\ jobs[j].output_file # NoFile
    /\ Read(j).kind = "json" /\ Read(j).val.t = "obj"
TextField(doc) == doc.v[CHOOSE i \in 1..Len(doc.v) : doc.v[i].k = "text"].val
MetadataField(doc) == doc.v[CHOOSE i \in 1..Len(doc.v) : doc.v[i].k = "metadata"].val

(* ---------------------------------------------------------------- C2 *)
NoInputCase(j) == Done(j) /\ jobs[j].pdf_file = None
NonZeroCase(j) == Done(j) /\ jobs[j].exit = "nonzero"
NoResultsDirCase(j) ==
    Done(j) /\ "scan" \in jobs[j].did /\ ~ dirs[work_dir(j)].results
NoOutputFileCase(j) ==
    Done(j) /\ "scan" \in jobs[j].did /\ dirs[work_dir(j)].results /\ dirs[work_dir(j)].outputs = {}
BlankCase(j) ==
    Done(j) /\ "scan" \in jobs[j].did /\ jobs[j].output_file # NoFile /\ Read(j).kind = "blank"
UnparseableCase(j) ==
    Done(j) /\ "scan" \in jobs[j].did /\ jobs[j].output_file # NoFile /\ Read(j).kind = "garbage"
NonObjectCase(j) ==
    Done(j) /\ "scan" \in jobs[j].did /\ jobs[j].output_file # NoFile
            /\ Read(j).kind = "json" /\ Read(j).val.t # "obj"
NonStringTextCase(j) ==
    Done(j) /\ ReadObject(j) /\ HasKey(Read(j).val, "text") /\ TextField(Read(j).val).t # "str"

\* C2: every failing outcome of process_pdf (no input, tool exit non-zero, results
\* directory absent, no output file, blank output file, unparseable or non-object
\* JSON, non-string text) is returned as (msg, "", None, None, None) with msg
\* non-empty; a missing results directory is reported with the results-directory
\* literal and a blank output file with the empty-output literal.
C2_FailureTuple ==
    \A j \in Jobs :
        /\ ( NoInputCase(j) \/ NonZeroCase(j) \/ NoResultsDirCase(j) \/ NoOutputFileCase(j)
             \/ BlankCase(j) \/ UnparseableCase(j) \/ NonObjectCase(j) \/ NonStringTextCase(j) )
           => IsFailure(jobs[j].ret)
        /\ NoResultsDirCase(j) => Contains(jobs[j].ret.log_text, <<MSG_NO_RESULTS_DIR>>)
        /\ BlankCase(j) => Contains(jobs[j].ret.log_text, <<MSG_EMPTY_OUTPUT>>)

\* a blank output file and another kind of failure have both been returned
C2_Witness ==
    /\ \E j \in Jobs : BlankCase(j)
    /\ \E j \in Jobs : NoResultsDirCase(j) \/ NonStringTextCase(j) \/ NonObjectCase(j)

(* ---------------------------------------------------------------- C3 *)
\* C3: process_pdf never lets an exception reach its caller: whatever step
\* raises (job directory, copy of the PDF, extraction tool, scan and parse,
\* metadata table, download file), the handler returns a message.
C3_NeverRaises == \A j \in Jobs : jobs[j].pc # "raised"

(* ---------------------------------------------------------------- C4 *)
WroteDownload(j) == \E d \in JobDirs : \E f \in dirs[d].downloads : f.by = j

\* C4: when the extraction tool exits non-zero, the returned message contains the
\* captured stderr and the invocation has done none of the later steps: no scan
\* of the results directory, no viewer run, no download file.
C4_NonZeroExit ==
    \A j \in Jobs :
        NonZeroCase(j) =>
            /\ jobs[j].stderr \in StdErrs
            /\ Contains(jobs[j].ret.log_text, jobs[j].stderr)
            /\ jobs[j].did \cap {"scan", "viewer", "write"} = {}
            /\ j \notin previews
            /\ ~ WroteDownload(j)
            /\ jobs[j].ret.file = None

C4_Witness == \E j \in Jobs : NonZeroCase(j) /\ dirs[work_dir(j)].input = j

(* ---------------------------------------------------------------- C5 *)
\* the tool exited 0 and the file read holds an object whose text, if present, is
\* a string and whose metadata, if present, is an object
WellFormedCase(j) ==
    /\ jobs[j].exit = "zero" /\ ReadObject(j)
    /\ HasKey(Read(j).val, "text") => TextField(Read(j).val).t = "str"
    /\ HasKey(Read(j).val, "metadata") => MetadataField(Read(j).val).t = "obj"

ExpectedText(doc) == IF HasKey(doc, "text") THEN TextField(doc) ELSE Str(<<MSG_NO_TEXT>>)
ExpectedKeys(doc) == IF HasKey(doc, "metadata") THEN MetadataField(doc).v ELSE <<>>

\* the text, the table and the download file the claim promises
WellFormedResult(j) ==
    LET doc == Read(j).val
        r == jobs[j].ret
        path == [t |-> "path",
                 dir |-> [root |-> "olmocr_workspace", kind |-> "job_", ts |-> jobs[j].timestamp],
                 name |-> [stem |-> jobs[j].pdf_file.stem, suffix |-> "_extracted_text.txt"]]
    IN  /\ r.extracted_text = ExpectedText(doc)
        /\ r.df.t = "DataFrame"
        /\ Len(r.df.v) = Len(ExpectedKeys(doc))
        /\ \A i \in 1..Len(r.df.v) :
               r.df.v[i] = <<ExpectedKeys(doc)[i].k, ExpectedKeys(doc)[i].val>>
        /\ r.file = path
        /\ \E f \in dirs[path.dir].downloads :
               f.name = path.name /\ f.text = ExpectedText(doc).v

\* C5 as claimed: whenever the tool exits 0 and the first output file holds an
\* object with string text T (or none: the placeholder) and object metadata M (or
\* none: no rows), process_pdf returns T, one [key, value] row per key of M in M's
\* order, and <job_dir>/<stem>_extracted_text.txt holding exactly T.
C5_WellFormedOutput ==
    [][ \A j \in Jobs :
          (~ Done(j) /\ Done(j)' /\ WellFormedCase(j)') => WellFormedResult(j)' ]_vars

\* C5 as amended: the same, provided T can be encoded as UTF-8 and the download
\* file could be opened for writing.
C5_WellFormedOutputWritten ==
    [][ \A j \in Jobs :
          ( /\ ~ Done(j) /\ Done(j)' /\ WellFormedCase(j)'
            /\ Encodable(ExpectedText(Read(j).val).v)'
            /\ ("write" \in jobs[j].did)' )
          => WellFormedResult(j)' ]_vars

\* one invocation has returned the placeholder with an empty table, another a
\* text with its metadata although its viewer run failed
C5_Witness ==
    /\ \E j \in Jobs : Succeeded(j) /\ WellFormedCase(j) /\ Read(j).val.v = <<>>
    /\ \E j \in Jobs : Succeeded(j) /\ WellFormedCase(j) /\ jobs[j].viewer = "failed"
                       /\ Len(jobs[j].ret.df.v) = 2

(* ---------------------------------------------------------------- C6 *)
PreviewFailedCase(j) ==
    /\ Done(j) /\ WellFormedCase(j)
    /\ Encodable(ExpectedText(Read(j).val).v) /\ "write" \in jobs[j].did
    /\ jobs[j].viewer = "failed" \/ jobs[j].html_read = "failed"

\* C6: when the viewer run fails or the preview file cannot be read, process_pdf
\* appends a diagnostic line to the log, still returns text, table and download
\* file, and returns an empty HTML preview, whatever dolma_previews holds.
C6_AbsentPreviewOnFailure ==
    \A j \in Jobs :
        PreviewFailedCase(j) =>
            /\ Succeeded(j)
            /\ jobs[j].viewer = "failed" => Contains(jobs[j].ret.log_text, <<MSG_PREVIEW_FAILED>>)
            /\ jobs[j].html_read = "failed" => Contains(jobs[j].ret.log_text, <<MSG_PREVIEW_READ_FAILED>>)
            /\ jobs[j].ret.extracted_text = ExpectedText(Read(j).val)
            /\ jobs[j].ret.html = Str(<<>>)

(* ---------------------------------------------------------------- C9 *)
\* C9: the scan of dolma_previews is not scoped to the job.  An invocation that
\* scans the directory while it holds only files of other invocations, and reads
\* the first one, takes the preview generated from another invocation's output
\* file, and that is the HTML it returns.
C9_ForeignPreview ==
    [][ \A j \in Jobs :
          /\ ( /\ jobs[j].pc = "htmlscan" /\ jobs'[j].pc = "write"
               /\ previews # {} /\ j \notin previews
               /\ jobs'[j].html_read # "failed" )
             => \E k \in previews \ {j} :
                   /\ Contains(jobs'[j].html_content, <<DocTag(k)>>)
                   /\ ~ Contains(jobs'[j].html_content, <<DocTag(j)>>)
          /\ ( jobs[j].pc = "write" /\ Succeeded(j)' )
             => jobs'[j].ret.html = Str(jobs[j].html_content) ]_vars

\* an invocation whose own viewer run succeeded has returned the preview of another
C9_Witness ==
    \E j, k \in Jobs :
        /\ j # k /\ Succeeded(j) /\ jobs[j].viewer = "ok"
        /\ Contains(jobs[j].ret.html.v, <<DocTag(k)>>)
        /\ ~ Contains(jobs[j].ret.html.v, <<DocTag(j)>>)

(* --------------------------------------------------------------- C10 *)
\* the invocation has read the clock and named its working directory
Staged(j) == jobs[j].pc \notin {"idle", "stage"} /\ jobs[j].pdf_file # None

OwnedBySecond(j) ==
    LET d == dirs[work_dir(j)]
    IN  /\ d.input # 0 => jobs[d.input].timestamp = jobs[j].timestamp
        /\ \A f \in d.outputs : jobs[f.by].timestamp = jobs[j].timestamp
        /\ \A f \in d.downloads : jobs[f.by].timestamp = jobs[j].timestamp
        /\ jobs[j].output_file # NoFile =>
               jobs[jobs[j].output_file.by].timestamp = jobs[j].timestamp

NonEmptyBatch == batch.pdf_files # None /\ batch.pdf_files.v # <<>>
archive == zips[batch_dir]
\* the invocation of process_pdf made for the i-th file
item(i) == jobs[batch.base + i]
EntryName(pdf_file) == [stem |-> pdf_file.stem, suffix |-> "_extracted_text.txt"]

\* C1: a batch over a non-empty list of N files always completes, and its archive
\* has exactly N entries, the i-th named <stem_i>_extracted_text.txt, whatever
\* happens to the single items (a failure to stage the PDF included).
C1_BatchCompletes ==
    NonEmptyBatch =>
        /\ batch.pc = "raised" => batch.exc \in {Exc("OSError:makedirs(batch_dir)"), Exc("OSError:zipfile")}
        /\ batch.pc = "done" =>
               /\ batch.ret.zip_path = [t |-> "path", dir |-> batch_dir, name |-> "extracted_texts.zip"]
               /\ archive.zip = "closed"
               /\ Len(archive.entries) = Len(batch.pdf_files.v)
               /\ \A i \in 1..Len(archive.entries) :
                      archive.entries[i].name = EntryName(batch.pdf_files.v[i])

(* ---------------------------------------------------------------- C7 *)
\* C7: a batch request with an empty or absent file collection returns the upload
\* prompt and no archive path, and does nothing else: no batch directory, no
\* archive, no call of process_pdf, no tool run.
C7_EmptyBatch ==
    (batch.pc # "idle" /\ ~ NonEmptyBatch) =>
        /\ batch.pc = "done"
        /\ batch.ret = [msg |-> <<MSG_UPLOAD>>, zip_path |-> None]
        /\ zips = [d \in BatchDirs |-> EmptyBatchDir]
        /\ \A j \in Jobs : jobs[j].caller # "batch"
        /\ ninv = 0 /\ now = 0
        /\ dirs = [d \in JobDirs |-> EmptyDir]
        /\ previews = {}

\* a batch request with an empty list has returned
C7_Witness == batch.pc = "done" /\ batch.pdf_files = List(<<>>)

(* ---------------------------------------------------------------- C8 *)
\* C8: the items of a batch are processed one at a time in input order, and the
\* i-th archive entry holds exactly the second slot that process_pdf returned for
\* the i-th file, which is the empty string for an item that failed.
C8_EntriesVerbatim ==
    NonEmptyBatch =>
        /\ Cardinality({j \in Jobs : jobs[j].caller = "batch" /\ Active(j)}) <= 1
        /\ \A i \in 1..Len(batch.pdf_files.v) :
               /\ item(i).pc # "idle" =>
                      /\ item(i).pdf_file = batch.pdf_files.v[i]
                      /\ \A h \in 1..(i - 1) : item(h).pc = "done"
               /\ i <= Len(archive.entries) =>
                      /\ item(i).pc = "done"
                      /\ archive.entries[i].name = EntryName(batch.pdf_files.v[i])
                      /\ archive.entries[i].text = item(i).ret.extracted_text
                      /\ item(i).ret.file = None => archive.entries[i].text = Str(<<>>)
        /\ batch.pc = "loop" => Len(archive.entries) = batch.i - 1
        /\ batch.pc = "done" => Len(archive.entries) = Len(batch.pdf_files.v)

\* a finished batch of two files, the first failed and the second extracted
C8_Witness ==
    /\ batch.pc = "done" /\ NonEmptyBatch /\ Len(archive.entries) = 2
    /\ archive.entries[1].text = Str(<<>>) /\ item(1).ret.file = None
    /\ archive.entries[2].text = Str(<<"hello">>)
    /\ archive.entries[1].name # archive.entries[2].name

====
